---- MODULE Spec2Model ----
(***************************************************************************)
(* Model of src/dashboard.py: the Streamlit script that loads the Titanic  *)
(* table once, filters it by three multiselect widgets, computes four KPI  *)
(* metrics and draws three annotated count-plots.  Streamlit re-runs the   *)
(* whole script on every widget change, so one widget change is one action *)
(* that recomputes everything from the cached table.                       *)
(*                                                                         *)
(* Numbers: a metric is a fraction <<n, d>> in lowest terms; d = 0 is the  *)
(* float NaN that pandas returns for the mean of no values.  Floating      *)
(* point rounding of the means is not modelled.                            *)
(***************************************************************************)
EXTENDS Integers, Sequences, FiniteSets, TLC

VARIABLES df, gender_filter, class_filter, embark_filter,
          filtered_df, total_passengers, survival_rate, avg_age, avg_fare,
          ax_sex, ax_emb, ax_class, probe

vars == <<df, gender_filter, class_filter, embark_filter,
          filtered_df, total_passengers, survival_rate, avg_age, avg_fare,
          ax_sex, ax_emb, ax_class, probe>>

-----------------------------------------------------------------------------
(* Bounds *)

MaxRows == 2
MaxBars == 3
MaxHeight == 5
MaxTotal == 8

-----------------------------------------------------------------------------
(* The table read by load_data *)

\* pandas' missing value in a text column (an empty CSV field)
NA == "nan"

\* pandas' missing value in a numeric column; ages and fares are >= 0
NaN == -1

\* The rows a CSV file may hold: the four passengers of the spec's scenario
\* and two passengers with absent fields.
Passengers ==
    { [sex |-> "male",   pclass |-> 1, embark_town |-> "Southampton",
       age |-> 2,   fare |-> 3,   survived |-> 1],
      [sex |-> "female", pclass |-> 1, embark_town |-> "Cherbourg",
       age |-> NaN, fare |-> 1,   survived |-> 1],
      [sex |-> "male",   pclass |-> 3, embark_town |-> "Southampton",
       age |-> 1,   fare |-> 0,   survived |-> 0],
      [sex |-> "female", pclass |-> 2, embark_town |-> "Queenstown",
       age |-> 0,   fare |-> NaN, survived |-> 0],
      [sex |-> "female", pclass |-> 3, embark_town |-> NA,
       age |-> NaN, fare |-> NaN, survived |-> 1],
      [sex |-> "male",   pclass |-> 2, embark_town |-> NA,
       age |-> 1,   fare |-> 2,   survived |-> 0] }

\* The 4-record data set of the spec's scenario, in its order
ScenarioDataset ==
    << [sex |-> "male",   pclass |-> 1, embark_town |-> "Southampton",
        age |-> 2,   fare |-> 3,   survived |-> 1],
       [sex |-> "female", pclass |-> 1, embark_town |-> "Cherbourg",
        age |-> NaN, fare |-> 1,   survived |-> 1],
       [sex |-> "male",   pclass |-> 3, embark_town |-> "Southampton",
        age |-> 1,   fare |-> 0,   survived |-> 0],
       [sex |-> "female", pclass |-> 2, embark_town |-> "Queenstown",
        age |-> 0,   fare |-> NaN, survived |-> 0] >>

SeqsUpTo(S, n) == UNION { [1..k -> S] : k \in 0..n }

\* What pd.read_csv may return: any table of at most MaxRows rows, or the
\* scenario's table
Datasets == SeqsUpTo(Passengers, MaxRows) \cup {ScenarioDataset}

-----------------------------------------------------------------------------
(* Series helpers *)

\* Series.unique(): the distinct values of a column, the missing value included
UniqueDropna(data, col) ==
    { v \in { data[i][col] : i \in DOMAIN data } : col \in {"sex", "embark_town"} => v # NA }
Unique(data, col) == { data[i][col] : i \in DOMAIN data }

\* Series.isin(values); pandas matches a missing value against a missing value
Isin(v, values) == v \in values

\* the boolean mask of lines 66-68, for one row
MaskAny(r, g, c, e) ==
    Isin(r.sex, g) \/ Isin(r.pclass, c) \/ Isin(r.embark_town, e)
Mask(r, g, c, e) ==
    Isin(r.sex, g) /\ Isin(r.pclass, c) /\ Isin(r.embark_town, e)

\* df[mask]: the rows whose mask is True, in the table's order
FilterRows(data, g, c, e) == SelectSeq(data, LAMBDA r : Mask(r, g, c, e))

RECURSIVE GCD(_, _)
GCD(a, b) == IF b = 0 THEN a ELSE GCD(b, a % b)

\* the fraction n/d in lowest terms (d > 0, n >= 0)
Frac(n, d) == LET g == GCD(n, d) IN <<n \div g, d \div g>>

NotANumber == <<0, 0>>

RECURSIVE SumSeq(_)
SumSeq(s) == IF s = <<>> THEN 0 ELSE Head(s) + SumSeq(Tail(s))

\* the values of a numeric column, as a sequence
Column(data, col) == [i \in DOMAIN data |-> data[i][col]]

\* Series.mean(): skips missing values; NaN when no value is left
Mean(data, col) ==
    LET present == SelectSeq(Column(data, col), LAMBDA v : v # NaN)
    IN  IF Len(present) = 0 THEN NotANumber
        ELSE Frac(SumSeq(present), Len(present))

\* float * int
Times(q, k) == IF q[2] = 0 THEN NotANumber ELSE Frac(q[1] * k, q[2])

-----------------------------------------------------------------------------
(* KPI metrics, lines 80-83 *)

SurvivalRateNoScale(data) ==
    IF Len(data) > 0 THEN Mean(data, "survived") ELSE <<0, 1>>
SurvivalRate(data) ==
    IF Len(data) > 0 THEN Times(Mean(data, "survived"), 100) ELSE <<0, 1>>

AvgAgeUnguarded(data) == Mean(data, "age")
AvgAge(data) == IF Len(data) > 0 THEN Mean(data, "age") ELSE <<0, 1>>

AvgFare(data) == IF Len(data) > 0 THEN Mean(data, "fare") ELSE <<0, 1>>

-----------------------------------------------------------------------------
(* Bar annotation, lines 25-39 *)

\* h / total_count * 100 printed with format .1f, as a number of tenths:
\* the nearest tenth, a tie going to the even tenth.  (Python rounds the
\* double nearest to the quotient; the two agree unless the exact quotient
\* is a tie, which needs total_count to be a multiple of 16.)
PercentTenthsTruncated(h, total_count) == (h * 1000) \div total_count
PercentTenths(h, total_count) ==
    LET q == (h * 1000) \div total_count
        r == (h * 1000) % total_count
    IN  IF 2 * r < total_count THEN q
        ELSE IF 2 * r > total_count THEN q + 1
        ELSE IF q % 2 = 0 THEN q ELSE q + 1

\* f'{x:.1f}' of a number of tenths
Fixed1(t) == ToString(t \div 10) \o "." \o ToString(t % 10)

\* f'{int(h)}\n({h/total_count*100:.1f}%)'; datavalues are numpy floats, so
\* a zero total_count gives inf, not an exception
BarLabel(h, total_count) ==
    IF total_count = 0 THEN ToString(h) \o "\n(inf%)"
    ELSE ToString(h) \o "\n(" \o Fixed1(PercentTenths(h, total_count)) \o "%)"

\* the list comprehension of lines 32-35, for one container
ContainerLabels(datavalues, total_count) ==
    [i \in DOMAIN datavalues |->
        IF datavalues[i] > 0 THEN BarLabel(datavalues[i], total_count) ELSE ""]

\* add_bar_labels: the loop over ax.containers
AddBarLabels(containers, total_count) ==
    [k \in DOMAIN containers |-> ContainerLabels(containers[k], total_count)]

-----------------------------------------------------------------------------
(* sns.countplot(data, x, hue='survived'), lines 103, 114, 129 *)

RECURSIVE SortedSeq(_)
SortedSeq(S) ==
    IF S = {} THEN <<>>
    ELSE LET m == CHOOSE x \in S : \A y \in S : x <= y
         IN  <<m>> \o SortedSeq(S \ {m})

\* seaborn's categorical order: numbers sorted, texts in order of first
\* appearance, missing values left out
CategoryOrder(data, x) ==
    IF x = "pclass" THEN SortedSeq(Unique(data, x))
    ELSE LET first == { i \in DOMAIN data :
                          /\ data[i][x] # NA
                          /\ \A j \in 1..(i - 1) : data[j][x] # data[i][x] }
             idx == SortedSeq(first)
         IN  [n \in DOMAIN idx |-> data[idx[n]][x]]

\* one container per hue level, one bar per category, height = row count
CountplotAnyCategory(data, x) ==
    LET cats == CategoryOrder(data, x)
        hues == SortedSeq(Unique(data, "survived"))
    IN  [h \in DOMAIN hues |-> [c \in DOMAIN cats |->
            Cardinality({ i \in DOMAIN data : data[i].survived = hues[h] })]]
CountplotOfTable(data, x) ==
    LET cats == CategoryOrder(df, x)
        hues == SortedSeq(Unique(df, "survived"))
    IN  [h \in DOMAIN hues |-> [c \in DOMAIN cats |->
            Cardinality({ i \in DOMAIN df :
                /\ df[i][x] = cats[c]
                /\ df[i].survived = hues[h] })]]
Countplot(data, x) ==
    LET cats == CategoryOrder(data, x)
        hues == SortedSeq(Unique(data, "survived"))
    IN  [h \in DOMAIN hues |-> [c \in DOMAIN cats |->
            Cardinality({ i \in DOMAIN data :
                /\ data[i][x] = cats[c]
                /\ data[i].survived = hues[h] })]]

\* an annotated count-plot: the axis after countplot and add_bar_labels;
\* total_count records the denominator the call site passed
Chart(data, x, total_count) ==
    LET containers == Countplot(data, x)
    IN  [containers  |-> containers,
         labels      |-> AddBarLabels(containers, total_count),
         total_count |-> total_count]

-----------------------------------------------------------------------------
(* The script, top to bottom *)

\* one run of the script on table d with the widgets returning g, c, e
Script(d, g, c, e) ==
    LET fdf == FilterRows(d, g, c, e)
        total == Len(fdf)
    IN  [filtered_df      |-> fdf,
         total_passengers |-> total,
         survival_rate    |-> SurvivalRate(fdf),
         avg_age          |-> AvgAge(fdf),
         avg_fare         |-> AvgFare(fdf),
         ax_sex           |-> Chart(fdf, "sex", total),
         ax_emb           |-> Chart(fdf, "embark_town", total),
         ax_class         |-> Chart(fdf, "pclass", total)]

\* no axis is annotated outside the script
NoProbe ==
    [total_count |-> 1, datavalues |-> <<>>, labels |-> <<>>, annotated |-> FALSE]

\* the first run: every widget returns its default, all options selected
Init ==
    /\ df \in Datasets
    /\ gender_filter = Unique(df, "sex")
    /\ class_filter = Unique(df, "pclass")
    /\ embark_filter = Unique(df, "embark_town")
    /\ LET out == Script(df, gender_filter, class_filter, embark_filter)
       IN  /\ filtered_df = out.filtered_df
           /\ total_passengers = out.total_passengers
           /\ survival_rate = out.survival_rate
           /\ avg_age = out.avg_age
           /\ avg_fare = out.avg_fare
           /\ ax_sex = out.ax_sex
           /\ ax_emb = out.ax_emb
           /\ ax_class = out.ax_class
    /\ probe = NoProbe

\* a re-run that keeps the KPI values of the previous run
RerunStaleMetrics(g, c, e) ==
    LET out == Script(df, g, c, e)
    IN  /\ gender_filter' = g
        /\ class_filter' = c
        /\ embark_filter' = e
        /\ filtered_df' = out.filtered_df
        /\ total_passengers' = out.total_passengers
        /\ ax_sex' = out.ax_sex
        /\ ax_emb' = out.ax_emb
        /\ ax_class' = out.ax_class
        /\ UNCHANGED <<df, survival_rate, avg_age, avg_fare, probe>>

\* a re-run that filters the cached table in place
RerunInPlace(g, c, e) ==
    LET out == Script(df, g, c, e)
    IN  /\ gender_filter' = g
        /\ class_filter' = c
        /\ embark_filter' = e
        /\ df' = out.filtered_df
        /\ filtered_df' = out.filtered_df
        /\ total_passengers' = out.total_passengers
        /\ survival_rate' = out.survival_rate
        /\ avg_age' = out.avg_age
        /\ avg_fare' = out.avg_fare
        /\ ax_sex' = out.ax_sex
        /\ ax_emb' = out.ax_emb
        /\ ax_class' = out.ax_class
        /\ UNCHANGED probe

\* a widget change: Streamlit re-runs the script; load_data is cached, so df
\* is the same table
Rerun(g, c, e) ==
    LET out == Script(df, g, c, e)
    IN  /\ gender_filter' = g
        /\ class_filter' = c
        /\ embark_filter' = e
        /\ filtered_df' = out.filtered_df
        /\ total_passengers' = out.total_passengers
        /\ survival_rate' = out.survival_rate
        /\ avg_age' = out.avg_age
        /\ avg_fare' = out.avg_fare
        /\ ax_sex' = out.ax_sex
        /\ ax_emb' = out.ax_emb
        /\ ax_class' = out.ax_class
        /\ UNCHANGED <<df, probe>>

\* selecting or deselecting one option of a multiselect
Toggle(selection, v) ==
    IF v \in selection THEN selection \ {v} ELSE selection \cup {v}

ChangeGender ==
    \E v \in Unique(df, "sex") :
        Rerun(Toggle(gender_filter, v), class_filter, embark_filter)

ChangeClass ==
    \E v \in Unique(df, "pclass") :
        Rerun(gender_filter, Toggle(class_filter, v), embark_filter)

ChangeEmbark ==
    \E v \in Unique(df, "embark_town") :
        Rerun(gender_filter, class_filter, Toggle(embark_filter, v))

Next == ChangeGender \/ ChangeClass \/ ChangeEmbark

Spec == Init /\ [][Next]_vars

-----------------------------------------------------------------------------
(* add_bar_labels on its own: any total_count >= 1, any container *)

ContainerInputs == SeqsUpTo(0..MaxHeight, MaxBars)

InitLabels ==
    /\ df = <<>>
    /\ gender_filter = {}
    /\ class_filter = {}
    /\ embark_filter = {}
    /\ LET out == Script(df, gender_filter, class_filter, embark_filter)
       IN  /\ filtered_df = out.filtered_df
           /\ total_passengers = out.total_passengers
           /\ survival_rate = out.survival_rate
           /\ avg_age = out.avg_age
           /\ avg_fare = out.avg_fare
           /\ ax_sex = out.ax_sex
           /\ ax_emb = out.ax_emb
           /\ ax_class = out.ax_class
    /\ \E t \in 1..MaxTotal, datavalues \in ContainerInputs :
          probe = [NoProbe EXCEPT !.total_count = t, !.datavalues = datavalues]

\* one pass of the loop of line 30: the labels of the axis' container
LabelContainer ==
    /\ ~probe.annotated
    /\ probe' = [probe EXCEPT
                    !.labels = ContainerLabels(probe.datavalues, probe.total_count),
                    !.annotated = TRUE]
    /\ UNCHANGED <<df, gender_filter, class_filter, embark_filter,
                   filtered_df, total_passengers, survival_rate, avg_age,
                   avg_fare, ax_sex, ax_emb, ax_class>>

NextLabels == LabelContainer

SpecLabels == InitLabels /\ [][NextLabels]_vars

-----------------------------------------------------------------------------
(* Properties *)

\* the rows of the table that lie in all three allowed sets
Matching ==
    { i \in DOMAIN df :
        /\ df[i].sex \in gender_filter
        /\ df[i].pclass \in class_filter
        /\ df[i].embark_town \in embark_filter }

\* the j-th smallest element of a set of row numbers
NthOf(K, j) == CHOOSE i \in K : Cardinality({ k \in K : k <= i }) = j

\* C1: a record is in the Filtered View iff its sex, pclass and embark_town
\* each lie in the column's allowed set; the view is those rows of the
\* table, each once, in the table's order.
C1_FilteredViewMembership ==
    /\ Len(filtered_df) = Cardinality(Matching)
    /\ \A j \in DOMAIN filtered_df : filtered_df[j] = df[NthOf(Matching, j)]

C1_Witness ==
    /\ Len(filtered_df) > 0
    /\ Len(filtered_df) < Len(df)
    /\ Cardinality(class_filter) >= 2
    /\ \E i \in DOMAIN df :
          /\ df[i].sex \in gender_filter
          /\ df[i].embark_town \in embark_filter
          /\ df[i].pclass \notin class_filter

\* C2: an empty Filtered View (as whenever one allowed set is empty) gives
\* total_count 0 and survival_rate, avg_age and avg_fare all 0, none NaN.
C2_EmptyViewMetricsZero ==
    /\ (gender_filter = {} \/ class_filter = {} \/ embark_filter = {})
          => Len(filtered_df) = 0
    /\ Len(filtered_df) = 0 =>
          /\ total_passengers = 0
          /\ survival_rate = <<0, 1>>
          /\ avg_age = <<0, 1>>
          /\ avg_fare = <<0, 1>>

C2_Witness ==
    /\ Len(df) > 0
    /\ gender_filter = {}
    /\ class_filter # {}
    /\ embark_filter # {}
    /\ total_passengers = 0
    /\ avg_age = <<0, 1>>

Charts == <<ax_sex, ax_emb, ax_class>>

\* C3 as stated: every call of add_bar_labels is made with total_count > 0.
C3_NeverInvokedWithZero ==
    \A n \in DOMAIN Charts : Charts[n].total_count > 0

\* C3 amended: add_bar_labels is called on every render, also with
\* total_count 0; then the axis has no container, and a percentage is only
\* ever computed for a segment of height > 0, whose total_count is > 0.
C3_PercentageOnlyWithPositiveTotal ==
    \A n \in DOMAIN Charts :
        /\ Charts[n].total_count = total_passengers
        /\ Charts[n].total_count = 0 =>
              Charts[n].containers = <<>> /\ Charts[n].labels = <<>>
        /\ \A k \in DOMAIN Charts[n].containers :
              \A i \in DOMAIN Charts[n].containers[k] :
                  Charts[n].containers[k][i] > 0 => Charts[n].total_count > 0

C3_Witness ==
    /\ Len(df) > 0
    /\ total_passengers = 0
    /\ \A n \in DOMAIN Charts :
          Charts[n].total_count = 0 /\ Charts[n].labels = <<>>

\* the number of survivors in the Filtered View
Survivors == Cardinality({ i \in DOMAIN filtered_df : filtered_df[i].survived = 1 })

AllSelected ==
    /\ \A i \in DOMAIN df : df[i].sex \in gender_filter
    /\ \A i \in DOMAIN df : df[i].embark_town \in embark_filter

\* C4: for a non-empty Filtered View survival_rate is
\* (sum of survived / total_count) * 100, total_count being the number of
\* records of the view; the scenario's table with pclass in {1} gives
\* total_count 2 and survival_rate 100.
C4_SurvivalRate ==
    /\ total_passengers = Len(filtered_df)
    /\ Len(filtered_df) > 0 =>
          /\ survival_rate[2] > 0
          /\ survival_rate[1] * total_passengers
                = 100 * Survivors * survival_rate[2]
    /\ (df = ScenarioDataset /\ class_filter = {1} /\ AllSelected) =>
          total_passengers = 2 /\ survival_rate = <<100, 1>>

C4_Witness ==
    /\ df = ScenarioDataset
    /\ class_filter = {1}
    /\ AllSelected
    /\ total_passengers = 2
    /\ survival_rate = <<100, 1>>

\* t tenths is a nearest tenth of h / total_count * 100
NearestTenth(t, h, total_count) ==
    /\ 2 * (h * 1000 - t * total_count) <= total_count
    /\ 2 * (t * total_count - h * 1000) <= total_count

\* C5: add_bar_labels gives each segment of height > 0 the label
\* "{height}\n({percentage:.1f}%)" with percentage = height/total_count*100
\* and each segment of height 0 the empty label, in the container's order;
\* heights [0, 5, 3] with total_count 8 give ["", "5\n(62.5%)", "3\n(37.5%)"].
C5_BarLabels ==
    probe.annotated =>
        /\ Len(probe.labels) = Len(probe.datavalues)
        /\ \A i \in DOMAIN probe.datavalues :
              LET h == probe.datavalues[i]
                  q == (h * 1000) \div probe.total_count
              IN  /\ h = 0 => probe.labels[i] = ""
                  /\ h > 0 =>
                        \E t \in q..(q + 1) :
                            /\ NearestTenth(t, h, probe.total_count)
                            /\ probe.labels[i] =
                                  ToString(h) \o "\n(" \o ToString(t \div 10)
                                  \o "." \o ToString(t % 10) \o "%)"
        /\ (probe.datavalues = <<0, 5, 3>> /\ probe.total_count = 8) =>
              probe.labels = <<"", "5\n(62.5%)", "3\n(37.5%)">>

C5_Witness ==
    /\ probe.annotated
    /\ probe.datavalues = <<0, 5, 3>>
    /\ probe.total_count = 8
    /\ probe.labels = <<"", "5\n(62.5%)", "3\n(37.5%)">>

\* every widget holds its default: all distinct values of its column
DefaultSelection ==
    /\ gender_filter = Unique(df, "sex")
    /\ class_filter = Unique(df, "pclass")
    /\ embark_filter = Unique(df, "embark_town")

\* C6: with every allowed set at the widget's default the Filtered View is
\* the Dataset, rows with an absent embark_town included.
C6_DefaultIsIdentity ==
    DefaultSelection => filtered_df = df /\ total_passengers = Len(df)

C6_Witness ==
    /\ DefaultSelection
    /\ \E i \in DOMAIN df : df[i].embark_town = NA
    /\ \E i \in DOMAIN df : df[i].embark_town # NA
    /\ filtered_df = df

\* C7 as stated: survival_rate is in [0, 100] and avg_age and avg_fare are
\* numbers >= 0, also when every age (or fare) of a non-empty view is absent.
C7_MetricsInRange ==
    /\ survival_rate[2] > 0
    /\ survival_rate[1] >= 0
    /\ survival_rate[1] <= 100 * survival_rate[2]
    /\ avg_age[2] > 0 /\ avg_age[1] >= 0
    /\ avg_fare[2] > 0 /\ avg_fare[1] >= 0

\* C8: what a render shows is what the script computes from the current
\* Filter Selection: nothing of an earlier selection survives.
C8_FreshRecomputation ==
    LET now == Script(df, gender_filter, class_filter, embark_filter)
    IN  /\ filtered_df = now.filtered_df
        /\ total_passengers = now.total_passengers
        /\ survival_rate = now.survival_rate
        /\ avg_age = now.avg_age
        /\ avg_fare = now.avg_fare
        /\ ax_sex = now.ax_sex
        /\ ax_emb = now.ax_emb
        /\ ax_class = now.ax_class

C8_Witness ==
    LET first == Script(df, Unique(df, "sex"), Unique(df, "pclass"),
                        Unique(df, "embark_town"))
    IN  /\ filtered_df # first.filtered_df
        /\ Len(filtered_df) > 0
        /\ survival_rate # first.survival_rate
        /\ avg_fare # first.avg_fare
        /\ ax_class # first.ax_class

\* C9: no render changes the loaded Dataset.
C9_DatasetUnchanged == [][df' = df]_vars

C9_Witness ==
    /\ Len(df) > 0
    /\ Len(filtered_df) < Len(df)
    /\ ~DefaultSelection

\* the sum of the segment heights over all containers of a chart
RECURSIVE SumHeights(_)
SumHeights(containers) ==
    IF containers = <<>> THEN 0
    ELSE SumSeq(Head(containers)) + SumHeights(Tail(containers))

\* the grouping column of each chart
ChartColumn == <<"sex", "embark_town", "pclass">>

\* the records of the Filtered View whose value in column x is present
Present(x) ==
    { i \in DOMAIN filtered_df : x # "pclass" => filtered_df[i][x] # NA }

\* C10 as stated: over a non-empty view the heights of each annotated
\* count-plot sum to total_passengers.
C10_HeightsSumToTotal ==
    total_passengers > 0 =>
        \A n \in DOMAIN Charts :
            SumHeights(Charts[n].containers) = total_passengers

\* C10 amended: the heights of a count-plot sum to the number of records of
\* the view whose grouping field is present, at most total_passengers; every
\* labelled percentage is > 0 and <= 100, a share of the whole view.
C10_HeightsSumToPresent ==
    total_passengers > 0 =>
        \A n \in DOMAIN Charts :
            /\ SumHeights(Charts[n].containers)
                  = Cardinality(Present(ChartColumn[n]))
            /\ SumHeights(Charts[n].containers) <= total_passengers
            /\ Charts[n].total_count = total_passengers
            /\ \A k \in DOMAIN Charts[n].containers :
                  \A i \in DOMAIN Charts[n].containers[k] :
                      LET h == Charts[n].containers[k][i]
                      IN  /\ h >= 0
                          /\ h <= total_passengers
                          /\ (Charts[n].labels[k][i] # "") = (h > 0)

C10_Witness ==
    /\ total_passengers > 0
    /\ \E i \in DOMAIN filtered_df : filtered_df[i].embark_town = NA
    /\ SumHeights(ax_emb.containers) > 0
    /\ SumHeights(ax_emb.containers) < total_passengers
    /\ SumHeights(ax_sex.containers) = total_passengers

====
